---- MODULE Spec2Model ----
(***************************************************************************)
(* Model of the personalised video search engine:                          *)
(*   src/src/search_engine.py     PersonalizedSearchEngine                 *)
(*   src/src/user_preferences.py  UserPreferenceEngine                     *)
(* Strings are tuples of one-character strings, so that splitting,         *)
(* stripping, case folding and substring search are computed as the code   *)
(* computes them.                                                          *)
(***************************************************************************)
EXTENDS Integers, Sequences, FiniteSets, TLC

VARIABLES
    default_preferences,  \* UserPreferenceEngine.default_preferences (its lists are shared objects)
    rows,                 \* keys that have a row in table user_preferences
    db,                   \* decoded value of each row of user_preferences
    user_interactions,    \* table user_interactions, in insertion order
    search_history,       \* table search_history, in insertion order
    call,                 \* the last call made on the engine and its arguments
    trace,                \* what the last call did: source requests, reads, results, learning
    outcome,              \* how the last call ended: returned value or raised failure
    threads               \* request threads inside record_interaction or update_preferences

vars == <<default_preferences, rows, db, user_interactions, search_history,
          call, trace, outcome, threads>>

(***************************************************************************)
(* Bounds of the model.                                                    *)
(***************************************************************************)
MaxLog == 1
MaxCand == 3
MaxChannelClicks == 53
MaxKeywordCalls == 3
MaxDriftEvents == 3
MaxViewExp == 3
MaxBodyLen == 4
MaxLearnCalls == 2
MaxExtractCalls == 2
MaxBoundCalls == 2
MaxThreads == 2

(***************************************************************************)
(* Strings.                                                                *)
(***************************************************************************)
UpperCase == <<"A","B","C","D","E","F","G","H","I","J","K","L","M",
               "N","O","P","Q","R","S","T","U","V","W","X","Y","Z">>
LowerCase == <<"a","b","c","d","e","f","g","h","i","j","k","l","m",
               "n","o","p","q","r","s","t","u","v","w","x","y","z">>
Digits == <<"0","1","2","3","4","5","6","7","8","9">>

IndexIn(c, t) == IF \E i \in 1..Len(t) : t[i] = c
                 THEN CHOOSE i \in 1..Len(t) : t[i] = c /\ \A j \in 1..(i-1) : t[j] # c
                 ELSE 0

Contains(s, c) == IndexIn(c, s) # 0

\* str.lower()
LowerChar(c) == IF Contains(UpperCase, c) THEN LowerCase[IndexIn(c, UpperCase)] ELSE c
Lower(s) == [i \in 1..Len(s) |-> LowerChar(s[i])]

\* Python's `k in t` on strings: the empty string is a substring of every string
IsSubstr(k, t) == \E i \in 0..(Len(t) - Len(k)) : SubSeq(t, i + 1, i + Len(k)) = k

StartsWith(s, p) == Len(s) >= Len(p) /\ SubSeq(s, 1, Len(p)) = p

\* str.split(c, 1): the text before the first c, and the text after it
Before(s, c) == SubSeq(s, 1, IndexIn(c, s) - 1)
After(s, c) == SubSeq(s, IndexIn(c, s) + 1, Len(s))

IsSpace(c) == c \in {" ", "\t", "\n"}

\* str.split(): the maximal runs of non-whitespace characters, in order
RECURSIVE SplitFrom(_, _, _)
SplitFrom(s, i, cur) ==
    IF i > Len(s) THEN (IF cur = <<>> THEN <<>> ELSE <<cur>>)
    ELSE IF IsSpace(s[i])
         THEN (IF cur = <<>> THEN <<>> ELSE <<cur>>) \o SplitFrom(s, i + 1, <<>>)
         ELSE SplitFrom(s, i + 1, Append(cur, s[i]))
Split(s) == SplitFrom(s, 1, <<>>)

\* str.strip(chars): drop leading and trailing characters that are in chars
RECURSIVE LStrip(_, _)
LStrip(s, chars) == IF s # <<>> /\ Head(s) \in chars THEN LStrip(Tail(s), chars) ELSE s
RECURSIVE RStrip(_, _)
RStrip(s, chars) == IF s # <<>> /\ s[Len(s)] \in chars
                    THEN RStrip(SubSeq(s, 1, Len(s) - 1), chars) ELSE s
Strip(s, chars) == RStrip(LStrip(s, chars), chars)

\* decimal text of a natural number
RECURSIVE NatStr(_)
NatStr(n) == IF n < 10 THEN <<Digits[n + 1]>>
             ELSE Append(NatStr(n \div 10), Digits[(n % 10) + 1])

\* membership of a value in a Python list
InList(x, l) == \E i \in 1..Len(l) : l[i] = x

(***************************************************************************)
(* int(text): optional surrounding whitespace, an optional sign, then      *)
(* digits (single underscores allowed between digits).  ok = FALSE stands  *)
(* for ValueError.                                                         *)
(***************************************************************************)
IsDigit(c) == Contains(Digits, c)
DigitVal(c) == IndexIn(c, Digits) - 1

RECURSIVE DigitsValue(_, _)
DigitsValue(s, acc) ==
    IF s = <<>> THEN acc
    ELSE IF Head(s) = "_" THEN DigitsValue(Tail(s), acc)
    ELSE DigitsValue(Tail(s), acc * 10 + DigitVal(Head(s)))

WellFormedDigits(s) ==
    /\ s # <<>>
    /\ IsDigit(s[1]) /\ IsDigit(s[Len(s)])
    /\ \A i \in 1..Len(s) : IsDigit(s[i]) \/ s[i] = "_"
    /\ \A i \in 1..(Len(s) - 1) : ~(s[i] = "_" /\ s[i + 1] = "_")

PyInt(text) ==
    LET t == Strip(text, {" ", "\t", "\n"})
        signed == t # <<>> /\ Head(t) \in {"-", "+"}
        body == IF signed THEN Tail(t) ELSE t
        sign == IF signed /\ Head(t) = "-" THEN -1 ELSE 1
    IN  IF WellFormedDigits(body)
        THEN [ok |-> TRUE, val |-> sign * DigitsValue(body, 0)]
        ELSE [ok |-> FALSE, val |-> 0]

\* a parser that gives 0 to every text that is not wholly digits and markers in
\* the order H, M, S
ParseDurationStrict(duration_str) ==
    IF ~StartsWith(duration_str, <<"P", "T">>) THEN 0
    ELSE
    LET s0 == SubSeq(duration_str, 3, Len(duration_str))
        hasH == Contains(s0, "H")
        hours == IF hasH THEN PyInt(Before(s0, "H")) ELSE [ok |-> TRUE, val |-> 0]
        s1 == IF hasH THEN After(s0, "H") ELSE s0
        hasM == Contains(s1, "M")
        minutes == IF hasM THEN PyInt(Before(s1, "M")) ELSE [ok |-> TRUE, val |-> 0]
        s2 == IF hasM THEN After(s1, "M") ELSE s1
        hasS == Contains(s2, "S")
        seconds == IF hasS THEN PyInt(Before(s2, "S")) ELSE [ok |-> TRUE, val |-> 0]
        s3 == IF hasS THEN After(s2, "S") ELSE s2
    IN  IF hours.ok /\ minutes.ok /\ seconds.ok /\ s3 = <<>>
        THEN hours.val * 3600 + minutes.val * 60 + seconds.val
        ELSE 0

(***************************************************************************)
(* _parse_duration: the same text in both classes.                         *)
(***************************************************************************)
ParseDuration(duration_str) ==
    IF ~StartsWith(duration_str, <<"P", "T">>) THEN 0
    ELSE
    LET s0 == SubSeq(duration_str, 3, Len(duration_str))
        hasH == Contains(s0, "H")
        hours == IF hasH THEN PyInt(Before(s0, "H")) ELSE [ok |-> TRUE, val |-> 0]
        s1 == IF hasH THEN After(s0, "H") ELSE s0
        hasM == Contains(s1, "M")
        minutes == IF hasM THEN PyInt(Before(s1, "M")) ELSE [ok |-> TRUE, val |-> 0]
        s2 == IF hasM THEN After(s1, "M") ELSE s1
        hasS == Contains(s2, "S")
        seconds == IF hasS THEN PyInt(Before(s2, "S")) ELSE [ok |-> TRUE, val |-> 0]
    IN  IF hours.ok /\ minutes.ok /\ seconds.ok
        THEN hours.val * 3600 + minutes.val * 60 + seconds.val
        ELSE 0

(***************************************************************************)
(* Video records and preference sets.                                      *)
(* published_at holds the age of the video at the time of the call, in     *)
(* hours; NoDate stands for an absent or unparseable timestamp.            *)
(***************************************************************************)
NoDate == -1

Keys == {"preferred_channels", "preferred_categories", "min_duration", "max_duration",
         "preferred_languages", "exclude_channels", "min_views", "max_age_days",
         "preferred_keywords", "disliked_keywords"}

ListKeys == {"preferred_channels", "preferred_categories", "preferred_languages",
             "exclude_channels", "preferred_keywords", "disliked_keywords"}

DefaultPreferences ==
    [preferred_channels |-> <<>>,
     preferred_categories |-> <<>>,
     min_duration |-> 0,
     max_duration |-> 7200,
     preferred_languages |-> << <<"e", "n">> >>,
     exclude_channels |-> <<>>,
     min_views |-> 0,
     max_age_days |-> 365,
     preferred_keywords |-> <<>>,
     disliked_keywords |-> <<>>]

(***************************************************************************)
(* PersonalizedSearchEngine: filter.                                       *)
(***************************************************************************)
\* age > timedelta(days=max_age_days); no or bad timestamp: not too old
IsVideoTooOld(published_at, max_age_days) ==
    IF published_at = NoDate THEN FALSE ELSE published_at > max_age_days * 24

\* age.days, -1 when the timestamp is absent or bad
GetVideoAgeDays(published_at) ==
    IF published_at = NoDate THEN -1 ELSE published_at \div 24

MentionsAny(keywords, title, description) ==
    \E i \in 1..Len(keywords) :
        \/ IsSubstr(Lower(keywords[i]), Lower(title))
        \/ IsSubstr(Lower(keywords[i]), Lower(description))

\* a filter that looks for disliked keywords in the title only
PassesFiltersTitleOnly(video, preferences) ==
    LET duration == ParseDuration(video.duration)
    IN  /\ ~InList(video.channel, preferences.exclude_channels)
        /\ ~(duration < preferences.min_duration \/ duration > preferences.max_duration)
        /\ ~(video.view_count < preferences.min_views)
        /\ ~IsVideoTooOld(video.published_at, preferences.max_age_days)
        /\ ~MentionsAny(preferences.disliked_keywords, video.title, <<>>)

PassesFilters(video, preferences) ==
    LET duration == ParseDuration(video.duration)
    IN  /\ ~InList(video.channel, preferences.exclude_channels)
        /\ ~(duration < preferences.min_duration \/ duration > preferences.max_duration)
        /\ ~(video.view_count < preferences.min_views)
        /\ ~IsVideoTooOld(video.published_at, preferences.max_age_days)
        /\ ~MentionsAny(preferences.disliked_keywords, video.title, video.description)

\* a filter that hands back the videos it keeps in reverse order
ApplyFiltersReversed(videos, preferences) ==
    LET kept == SelectSeq(videos, LAMBDA video : PassesFilters(video, preferences))
    IN  [i \in 1..Len(kept) |-> kept[Len(kept) + 1 - i]]

ApplyPreferenceFilters(videos, preferences) ==
    SelectSeq(videos, LAMBDA video : PassesFilters(video, preferences))

(***************************************************************************)
(* PersonalizedSearchEngine: score and rank.  A score is an integer number *)
(* of units of 1/ScoreScale; every term of the score is a whole number of  *)
(* units for the inputs drawn here (view counts are powers of ten, where   *)
(* Log10 is exact).                                                        *)
(***************************************************************************)
ScoreScale == 6 * 10000

RECURSIVE Log10(_)
Log10(n) == IF n < 10 THEN 0 ELSE 1 + Log10(n \div 10)

CountMatches(words, text) == Cardinality({i \in 1..Len(words) : IsSubstr(words[i], text)})

KeywordMatches(keywords, title, description) ==
    Cardinality({i \in 1..Len(keywords) :
                    \/ IsSubstr(Lower(keywords[i]), Lower(title))
                    \/ IsSubstr(Lower(keywords[i]), Lower(description))})

\* a popularity term that is taken off the score instead of added to it
ViewTermSubtracted(view_count) ==
    IF view_count > 0 THEN 0 - (Log10(view_count) * ScoreScale) \div 10 ELSE 0

ViewTerm(view_count) ==
    IF view_count > 0 THEN (Log10(view_count) * ScoreScale) \div 10 ELSE 0

LikeTerm(like_count, view_count) ==
    IF like_count > 0 /\ view_count > 0
    THEN (100 * like_count * ScoreScale) \div view_count ELSE 0

RecencyTerm(published_at) ==
    LET days_old == GetVideoAgeDays(published_at)
    IN  IF days_old >= 0 /\ days_old < 30 THEN ((30 - days_old) * ScoreScale) \div 60 ELSE 0

CalculatePreferenceScore(video, preferences, query) ==
    LET query_words == Split(Lower(query))
        duration == ParseDuration(video.duration)
    IN  ScoreScale
        + (IF InList(video.channel, preferences.preferred_channels) THEN 2 * ScoreScale ELSE 0)
        + (IF InList(video.category_id, preferences.preferred_categories)
           THEN (3 * ScoreScale) \div 2 ELSE 0)
        + (KeywordMatches(preferences.preferred_keywords, video.title, video.description)
             * ScoreScale) \div 2
        + (IF query_words # <<>>
           THEN (2 * ScoreScale * CountMatches(query_words, Lower(video.title)))
                    \div Len(query_words)
           ELSE 0)
        + ViewTerm(video.view_count)
        + LikeTerm(video.like_count, video.view_count)
        + RecencyTerm(video.published_at)
        + (IF preferences.min_duration <= duration /\ duration <= preferences.max_duration
           THEN (3 * ScoreScale) \div 10 ELSE 0)

\* an insertion that puts a video ahead of the videos that score the same
RECURSIVE InsertBeforeEqualScore(_, _, _, _)
InsertBeforeEqualScore(sorted, video, preferences, query) ==
    IF sorted = <<>> THEN <<video>>
    ELSE IF CalculatePreferenceScore(Head(sorted), preferences, query)
              > CalculatePreferenceScore(video, preferences, query)
         THEN <<Head(sorted)>> \o InsertBeforeEqualScore(Tail(sorted), video, preferences, query)
         ELSE <<video>> \o sorted

\* list.sort(key=score, reverse=True) is stable: equal scores keep their order
RECURSIVE InsertByScore(_, _, _, _)
InsertByScore(sorted, video, preferences, query) ==
    IF sorted = <<>> THEN <<video>>
    ELSE IF CalculatePreferenceScore(Head(sorted), preferences, query)
              >= CalculatePreferenceScore(video, preferences, query)
         THEN <<Head(sorted)>> \o InsertByScore(Tail(sorted), video, preferences, query)
         ELSE <<video>> \o sorted

RECURSIVE RankFrom(_, _, _, _)
RankFrom(sorted, videos, preferences, query) ==
    IF videos = <<>> THEN sorted
    ELSE RankFrom(InsertByScore(sorted, Head(videos), preferences, query),
                  Tail(videos), preferences, query)

RankByPreferences(videos, preferences, query) == RankFrom(<<>>, videos, preferences, query)

\* list[:n] for n >= 0
Truncate(list, n) == SubSeq(list, 1, IF n < Len(list) THEN n ELSE Len(list))

\* list[-n:] for n > 0
LastN(list, n) == IF Len(list) > n THEN SubSeq(list, Len(list) - n + 1, Len(list)) ELSE list

Min(a, b) == IF a < b THEN a ELSE b
Max(a, b) == IF a > b THEN a ELSE b

(***************************************************************************)
(* UserPreferenceEngine: the preference store.                             *)
(* A value written by update_preferences is read back by get_preferences   *)
(* as the same value: integers go through str() and json.loads, lists of   *)
(* strings through json.dumps and json.loads.  db holds the decoded value. *)
(***************************************************************************)
\* get_preferences: a copy of the defaults overlaid with the stored rows; when the
\* read fails the failure is logged and a copy of the defaults is returned
GetPreferences(readFails) ==
    IF readFails THEN default_preferences
    ELSE [k \in Keys |-> IF k \in rows THEN db[k] ELSE default_preferences[k]]

\* dict.copy() is shallow: the list under a key that no row overlays is the very
\* list object held by default_preferences
SharesDefault(key, readFails) == readFails \/ key \notin rows

\* the preferences a reader obtains from a working store
StoredPreferences == GetPreferences(FALSE)

NoVideo == [video_id |-> <<>>, title |-> <<>>, channel |-> <<>>, description |-> <<>>,
            published_at |-> NoDate, duration |-> <<>>, view_count |-> 0,
            like_count |-> 0, category_id |-> <<>>]

NoCall == [op |-> "init", query |-> <<>>, max_results |-> 0, video |-> NoVideo,
           action |-> "", mapping |-> <<>>]

NoTrace == [requests |-> <<>>, raw |-> <<>>, failures |-> {}, before |-> <<>>,
            source |-> <<>>, searches_before |-> 0, interactions_before |-> 0]

\* the request threads of the application, and a thread that is in no call
Threads == 1..MaxThreads

NoThread == [pc |-> "idle", op |-> "", video |-> NoVideo, action |-> "", mapping |-> <<>>,
             preferences |-> <<>>, shared |-> {}]

Returned(value) == [raised |-> FALSE, value |-> value, score |-> 0]
Raised == [raised |-> TRUE, value |-> <<>>, score |-> 0]

Init ==
    /\ default_preferences = DefaultPreferences
    /\ rows = {}
    /\ db = DefaultPreferences
    /\ user_interactions = <<>>
    /\ search_history = <<>>
    /\ call = NoCall
    /\ trace = NoTrace
    /\ outcome = Returned(<<>>)
    /\ threads = [thread \in Threads |-> NoThread]

\* The engine serves one request at a time: an operation starts when no call is
\* pending, and the boundary handler hands its outcome back to the client.
Idle == call.op = "init"

Return ==
    /\ ~Idle
    /\ call' = NoCall
    /\ trace' = NoTrace
    /\ outcome' = Returned(<<>>)
    /\ UNCHANGED <<default_preferences, rows, db, user_interactions, search_history, threads>>

\* update_preferences: upsert every key of the mapping in one transaction;
\* a failure is logged and raised again
UpdatePreferences(mapping, writeFails) ==
    /\ Idle
    /\ call' = [NoCall EXCEPT !.op = "update_preferences", !.mapping = mapping]
    /\ trace' = [NoTrace EXCEPT !.failures = IF writeFails THEN {"write"} ELSE {}]
    /\ IF writeFails
       THEN /\ outcome' = Raised
            /\ UNCHANGED <<rows, db>>
       ELSE /\ outcome' = Returned(<<>>)
            /\ rows' = rows \cup DOMAIN mapping
            /\ db' = [k \in Keys |-> IF k \in DOMAIN mapping THEN mapping[k] ELSE db[k]]
    /\ UNCHANGED <<default_preferences, user_interactions, search_history, threads>>

(***************************************************************************)
(* UserPreferenceEngine: recording an interaction and learning from it.    *)
(***************************************************************************)
ChannelCap == 50
KeywordCap == 100
MinDurationStep == 60
MaxDurationStep == 300
MaxDurationCeiling == 14400

\* a set of learning actions that takes in the label 'shared'
LearnActionsWithShared == {"clicked", "liked", "watched", "shared"}

LearnActions == {"clicked", "liked", "watched"}

CommonWords ==
    { <<"t", "h", "i", "s">>, <<"t", "h", "a", "t">>, <<"w", "i", "t", "h">>,
      <<"h", "a", "v", "e">>, <<"w", "i", "l", "l">>, <<"f", "r", "o", "m">>,
      <<"t", "h", "e", "y">>, <<"k", "n", "o", "w">>, <<"w", "a", "n", "t">>,
      <<"b", "e", "e", "n">>, <<"g", "o", "o", "d">>, <<"m", "u", "c", "h">>,
      <<"s", "o", "m", "e">>, <<"t", "i", "m", "e">>, <<"v", "e", "r", "y">>,
      <<"w", "h", "e", "n">>, <<"c", "o", "m", "e">>, <<"h", "e", "r", "e">>,
      <<"j", "u", "s", "t">>, <<"l", "i", "k", "e">>, <<"l", "o", "n", "g">>,
      <<"m", "a", "k", "e">>, <<"m", "a", "n", "y">>, <<"o", "v", "e", "r">>,
      <<"s", "u", "c", "h">>, <<"t", "a", "k", "e">>, <<"t", "h", "a", "n">>,
      <<"t", "h", "e", "m">>, <<"w", "e", "l", "l">>, <<"w", "e", "r", "e">> }

Punctuation == {".", ",", "!", "?", "(", ")", "[", "]"}

\* the oldest entries of an over-long channel list, instead of the newest
KeepOldestChannels(channels) ==
    IF Len(channels) > ChannelCap THEN Truncate(channels, ChannelCap) ELSE channels

\* preferred_channels[-50:] once the list is longer than 50
KeepRecentChannels(channels) ==
    IF Len(channels) > ChannelCap THEN LastN(channels, ChannelCap) ELSE channels

\* [word.strip('.,!?()[]') for word in title.split() if len(word) > 3]
TitleWords(title) ==
    LET tokens == SelectSeq(Split(title), LAMBDA word : Len(word) > 3)
    IN  [i \in 1..Len(tokens) |-> Strip(tokens[i], Punctuation)]

\* a keyword loop that appends without looking at the length of the list
RECURSIVE AddKeywordsUncapped(_, _)
AddKeywordsUncapped(words, keywords) ==
    IF words = <<>> THEN keywords
    ELSE IF Head(words) \notin CommonWords /\ ~InList(Head(words), keywords)
         THEN AddKeywordsUncapped(Tail(words), Append(keywords, Head(words)))
         ELSE AddKeywordsUncapped(Tail(words), keywords)

\* the loop over the words of the title
RECURSIVE AddKeywords(_, _)
AddKeywords(words, keywords) ==
    IF words = <<>> THEN keywords
    ELSE IF /\ Head(words) \notin CommonWords
            /\ ~InList(Head(words), keywords)
            /\ Len(keywords) < KeywordCap
         THEN AddKeywords(Tail(words), Append(keywords, Head(words)))
         ELSE AddKeywords(Tail(words), keywords)

\* a rise of max_duration without the ceiling
RaisedMaxUnclamped(current_max) == current_max + MaxDurationStep

\* min(14400, current_max + 300)
RaisedMax(current_max) == Min(MaxDurationCeiling, current_max + MaxDurationStep)

\* max(0, current_min - 60)
LoweredMin(current_min) == Max(0, current_min - MinDurationStep)

\* a learner whose category rule also fires on 'watched'
LearnedCategoryFromWatched(video, action, preferences) ==
    LET channel == video.channel
        add_channel == /\ channel # <<>> /\ action \in {"clicked", "liked", "watched"}
                       /\ ~InList(channel, preferences.preferred_channels)
        channels_appended == IF add_channel
                             THEN Append(preferences.preferred_channels, channel)
                             ELSE preferences.preferred_channels
        category == video.category_id
        add_category == /\ category # <<>> /\ action \in {"clicked", "liked", "watched"}
                        /\ ~InList(category, preferences.preferred_categories)
        categories_appended == IF add_category
                               THEN Append(preferences.preferred_categories, category)
                               ELSE preferences.preferred_categories
        duration == ParseDuration(video.duration)
        drift == duration > 0 /\ action \in {"watched", "liked"}
        current_min == preferences.min_duration
        current_max == preferences.max_duration
        title == Lower(video.title)
        keywords_appended == IF title # <<>> /\ action \in {"clicked", "liked"}
                             THEN AddKeywords(TitleWords(title), preferences.preferred_keywords)
                             ELSE preferences.preferred_keywords
    IN  [appended |-> [preferred_channels |-> channels_appended,
                       preferred_categories |-> categories_appended,
                       preferred_keywords |-> keywords_appended],
         updated |-> [preferences EXCEPT
                        !.preferred_channels = IF add_channel
                                               THEN KeepRecentChannels(channels_appended)
                                               ELSE channels_appended,
                        !.preferred_categories = categories_appended,
                        !.min_duration = IF drift /\ duration < current_min
                                         THEN LoweredMin(current_min) ELSE @,
                        !.max_duration = IF drift /\ duration > current_max
                                         THEN RaisedMax(current_max) ELSE @,
                        !.preferred_keywords = keywords_appended]]

\* _learn_from_interaction up to its write: the mapping it hands to
\* update_preferences, and the lists as appended to in place
Learned(video, action, preferences) ==
    LET channel == video.channel
        add_channel == /\ channel # <<>> /\ action \in {"clicked", "liked", "watched"}
                       /\ ~InList(channel, preferences.preferred_channels)
        channels_appended == IF add_channel
                             THEN Append(preferences.preferred_channels, channel)
                             ELSE preferences.preferred_channels
        category == video.category_id
        add_category == /\ category # <<>> /\ action \in {"clicked", "liked"}
                        /\ ~InList(category, preferences.preferred_categories)
        categories_appended == IF add_category
                               THEN Append(preferences.preferred_categories, category)
                               ELSE preferences.preferred_categories
        duration == ParseDuration(video.duration)
        drift == duration > 0 /\ action \in {"watched", "liked"}
        current_min == preferences.min_duration
        current_max == preferences.max_duration
        title == Lower(video.title)
        keywords_appended == IF title # <<>> /\ action \in {"clicked", "liked"}
                             THEN AddKeywords(TitleWords(title), preferences.preferred_keywords)
                             ELSE preferences.preferred_keywords
    IN  [appended |-> [preferred_channels |-> channels_appended,
                       preferred_categories |-> categories_appended,
                       preferred_keywords |-> keywords_appended],
         updated |-> [preferences EXCEPT
                        !.preferred_channels = IF add_channel
                                               THEN KeepRecentChannels(channels_appended)
                                               ELSE channels_appended,
                        !.preferred_categories = categories_appended,
                        !.min_duration = IF drift /\ duration < current_min
                                         THEN LoweredMin(current_min) ELSE @,
                        !.max_duration = IF drift /\ duration > current_max
                                         THEN RaisedMax(current_max) ELSE @,
                        !.preferred_keywords = keywords_appended]]

\* The store after _learn_from_interaction: a list that no row overlays is the
\* defaults' own list and keeps what was appended to it; the mapping is written
\* unless the write fails, and the failure is then logged, not raised.
LearnFromInteraction(video, action, readFails, writeFails) ==
    LET learned == Learned(video, action, GetPreferences(readFails))
        shared == {key \in DOMAIN learned.appended : SharesDefault(key, readFails)}
    IN  /\ default_preferences' =
               [key \in Keys |-> IF key \in shared THEN learned.appended[key]
                                 ELSE default_preferences[key]]
        /\ IF writeFails
           THEN UNCHANGED <<rows, db>>
           ELSE /\ rows' = rows \cup Keys
                /\ db' = learned.updated

InteractionRow(video, action, query) ==
    [video_id |-> video.video_id, action |-> action, query |-> query,
     channel |-> video.channel, category |-> video.category_id,
     duration |-> ParseDuration(video.duration), view_count |-> video.view_count]

\* record_interaction: insert the row, then learn when the action is one of the
\* three; every failure is caught and logged, and a failed insert skips the learning
RecordInteraction(video, action, query, insertFails, readFails, writeFails) ==
    LET learns == ~insertFails /\ action \in LearnActions
    IN  /\ Idle
        /\ call' = [NoCall EXCEPT !.op = "record_interaction", !.video = video,
                                  !.action = action, !.query = query]
        /\ trace' = [NoTrace EXCEPT
                       !.searches_before = Len(search_history),
                       !.interactions_before = Len(user_interactions),
                       !.before = StoredPreferences,
                       !.failures = (IF insertFails THEN {"insert"} ELSE {})
                                    \cup (IF learns /\ readFails THEN {"read"} ELSE {})
                                    \cup (IF learns /\ writeFails THEN {"write"} ELSE {})]
        /\ outcome' = Returned(<<>>)
        /\ user_interactions' = IF insertFails THEN user_interactions
                                ELSE Append(user_interactions,
                                            InteractionRow(video, action, query))
        /\ IF learns
           THEN LearnFromInteraction(video, action, readFails, writeFails)
           ELSE UNCHANGED <<default_preferences, rows, db>>
        /\ UNCHANGED <<search_history, threads>>

(***************************************************************************)
(* PersonalizedSearchEngine.search                                         *)
(***************************************************************************)
RequestCap == 50

\* a request size without the cap of 50
RequestSizeUncapped(max_results) == max_results * 2

\* the number of candidates search() asks the source for
RequestSize(max_results) == Min(max_results * 2, RequestCap)

\* a search() that any failing collaborator call makes raise
SearchRaisesOnAnyFailure(failures) == failures # {}

\* a search() that falls back on an empty list, as search_by_channel does
SearchNeverRaises(failures) == FALSE

\* which failures leave search(): search_videos raises; get_preferences and
\* record_search catch and log their own
SearchRaises(failures) == "source" \in failures

\* a search that logs the count of the ranked list, before the truncation
SearchOnceLogsBeforeTruncate(query, max_results, reply, readFails, logFails, history) ==
    LET failures == (IF ~reply.ok THEN {"source"} ELSE {})
                    \cup (IF reply.ok /\ readFails THEN {"read"} ELSE {})
                    \cup (IF reply.ok /\ logFails THEN {"log"} ELSE {})
        preferences == GetPreferences(readFails)
        filtered_results == ApplyPreferenceFilters(reply.videos, preferences)
        ranked_results == RankByPreferences(filtered_results, preferences, query)
        final_results == Truncate(ranked_results, max_results)
        entry == [query |-> query, results_count |-> Len(ranked_results)]
    IN  [request |-> [query |-> query, max_results |-> RequestSize(max_results)],
         failures |-> failures,
         raised |-> SearchRaises(failures),
         results |-> IF SearchRaises(failures) THEN <<>> ELSE final_results,
         history |-> IF ~reply.ok \/ logFails THEN history ELSE Append(history, entry)]

\* One run of search() against the current store.  reply is what the source
\* answers: [ok |-> FALSE] when it raises, else the candidates.
SearchOnce(query, max_results, reply, readFails, logFails, history) ==
    LET failures == (IF ~reply.ok THEN {"source"} ELSE {})
                    \cup (IF reply.ok /\ readFails THEN {"read"} ELSE {})
                    \cup (IF reply.ok /\ logFails THEN {"log"} ELSE {})
        preferences == GetPreferences(readFails)
        filtered_results == ApplyPreferenceFilters(reply.videos, preferences)
        ranked_results == RankByPreferences(filtered_results, preferences, query)
        final_results == Truncate(ranked_results, max_results)
        entry == [query |-> query, results_count |-> Len(final_results)]
    IN  [request |-> [query |-> query, max_results |-> RequestSize(max_results)],
         failures |-> failures,
         raised |-> SearchRaises(failures),
         results |-> IF SearchRaises(failures) THEN <<>> ELSE final_results,
         history |-> IF ~reply.ok \/ logFails THEN history ELSE Append(history, entry)]

Search(query, max_results, reply, readFails, logFails) ==
    \E run \in {SearchOnce(query, max_results, reply, readFails, logFails, search_history)} :
        /\ Idle
        /\ call' = [NoCall EXCEPT !.op = "search", !.query = query, !.max_results = max_results]
        /\ trace' = [NoTrace EXCEPT
                       !.searches_before = Len(search_history),
                       !.interactions_before = Len(user_interactions),
                       !.source = <<reply>>,
                       !.requests = <<run.request>>,
                       !.raw = IF reply.ok THEN reply.videos ELSE <<>>,
                       !.failures = run.failures]
        /\ outcome' = IF run.raised THEN Raised ELSE Returned(run.results)
        /\ search_history' = run.history
        /\ UNCHANGED <<default_preferences, rows, db, user_interactions, threads>>

(***************************************************************************)
(* Operations built on search(): trending and recommendations.             *)
(***************************************************************************)
TrendingQueries ==
    << <<"t", "r", "e", "n", "d", "i", "n", "g", " ", "t", "o", "d", "a", "y">>,
       <<"p", "o", "p", "u", "l", "a", "r", " ", "v", "i", "d", "e", "o", "s">>,
       <<"v", "i", "r", "a", "l", " ", "v", "i", "d", "e", "o", "s">>,
       <<"l", "a", "t", "e", "s", "t", " ", "t", "r", "e", "n", "d", "i", "n", "g">> >>

GenericQueries ==
    << <<"e", "d", "u", "c", "a", "t", "i", "o", "n", "a", "l">>,
       <<"e", "n", "t", "e", "r", "t", "a", "i", "n", "m", "e", "n", "t">>,
       <<"t", "e", "c", "h", "n", "o", "l", "o", "g", "y">>,
       <<"m", "u", "s", "i", "c">> >>

\* the first video of each video_id, in order
RECURSIVE UniqueFrom(_, _)
UniqueFrom(videos, seen_ids) ==
    IF videos = <<>> THEN <<>>
    ELSE IF Head(videos).video_id \in seen_ids
         THEN UniqueFrom(Tail(videos), seen_ids)
         ELSE <<Head(videos)>> \o UniqueFrom(Tail(videos), seen_ids \cup {Head(videos).video_id})

\* a result list that keeps every video, repeated or not
KeepDuplicates(videos) == videos

Unique(videos) == UniqueFrom(videos, {})

\* a trending loop that skips a failed query and goes on
TrendingSkipsFailedQuery == FALSE

\* get_trending_personalized has one handler around the whole loop: the first
\* failing search() ends the loop
TrendingAbortsOnFailure == TRUE

\* a recommendation loop that the first failing query ends
RecommendationsAbortLikeTrending == TRUE

\* get_recommendations catches the failure of each search() inside the loop
RecommendationsAbortOnFailure == FALSE

\* what one search() of the loop adds: all_results.extend(results)
Extend(acc, run, reply) ==
    [all_results |-> acc.all_results \o run.results,
     history |-> run.history,
     requests |-> Append(acc.requests, run.request),
     raw |-> acc.raw \o reply.videos,
     failed |-> acc.failed \/ run.raised]

\* The loop `for query in queries: results = self.search(query, per_query)`:
\* the searches run one after the other against the source's replies.
RECURSIVE RunQueries(_, _, _, _, _)
RunQueries(queries, per_query, replies, stop_on_failure, acc) ==
    IF queries = <<>> THEN acc
    ELSE CHOOSE after \in
             { IF run.raised /\ stop_on_failure
               THEN Extend(acc, run, Head(replies))
               ELSE RunQueries(Tail(queries), per_query, Tail(replies), stop_on_failure,
                               Extend(acc, run, Head(replies))) :
                   run \in {SearchOnce(Head(queries), per_query, Head(replies),
                                       FALSE, FALSE, acc.history)} } : TRUE

QueryLoop(queries, per_query, replies, stop_on_failure) ==
    RunQueries(queries, per_query, replies, stop_on_failure,
               [all_results |-> <<>>, history |-> search_history, requests |-> <<>>,
                raw |-> <<>>, failed |-> FALSE])

GetTrendingPersonalized(max_results, replies) ==
    \E loop \in {QueryLoop(TrendingQueries, max_results \div Len(TrendingQueries), replies,
                           TrendingAbortsOnFailure)} :
        /\ Idle
        /\ call' = [NoCall EXCEPT !.op = "get_trending_personalized",
                                  !.max_results = max_results]
        /\ trace' = [NoTrace EXCEPT
                       !.searches_before = Len(search_history),
                       !.interactions_before = Len(user_interactions),
                       !.source = replies,
                       !.requests = loop.requests,
                       !.raw = loop.raw,
                       !.failures = IF loop.failed THEN {"source"} ELSE {}]
        /\ outcome' = IF loop.failed /\ TrendingAbortsOnFailure THEN Returned(<<>>)
                      ELSE Returned(Truncate(Unique(loop.all_results), max_results))
        /\ search_history' = loop.history
        /\ UNCHANGED <<default_preferences, rows, db, user_interactions, threads>>

\* the queries get_recommendations builds from the preferences
RecommendationQueries(preferences) ==
    LET preferred_keywords == Truncate(preferences.preferred_keywords, 10)
        preferred_channels == Truncate(preferences.preferred_channels, 5)
        queries == preferred_keywords
                   \o [i \in 1..Len(preferred_channels) |->
                          <<"c", "h", "a", "n", "n", "e", "l", ":">> \o preferred_channels[i]]
    IN  IF queries = <<>> THEN GenericQueries ELSE queries

GetRecommendations(max_results, replies) ==
    \E queries \in {RecommendationQueries(GetPreferences(FALSE))} :
    \E loop \in {QueryLoop(queries, Max(1, max_results \div Len(queries)), replies,
                           RecommendationsAbortOnFailure)} :
        /\ Idle
        /\ call' = [NoCall EXCEPT !.op = "get_recommendations",
                                  !.max_results = max_results]
        /\ trace' = [NoTrace EXCEPT
                       !.searches_before = Len(search_history),
                       !.interactions_before = Len(user_interactions),
                       !.source = replies,
                       !.requests = loop.requests,
                       !.raw = loop.raw,
                       !.failures = IF loop.failed THEN {"source"} ELSE {}]
        /\ outcome' = Returned(Truncate(Unique(loop.all_results), max_results))
        /\ search_history' = loop.history
        /\ UNCHANGED <<default_preferences, rows, db, user_interactions, threads>>

(***************************************************************************)
(* Inputs of the search specification: a catalogue the source answers      *)
(* from, the queries, and the explicit preference updates.                 *)
(***************************************************************************)
BaseVideo ==
    [video_id |-> <<"v", "1">>, title |-> <<"R", "u", "s", "t", " ", "i", "n", "t", "r", "o">>,
     channel |-> <<"O", "k">>, description |-> <<"a", " ", "t", "a", "l", "k">>,
     published_at |-> 48, duration |-> <<"P", "T", "5", "M">>, view_count |-> 100,
     like_count |-> 0, category_id |-> <<>>]

CatalogueOrder ==
    << [BaseVideo EXCEPT !.video_id = <<"v", "3">>, !.channel = <<"B", "a", "d">>],
       BaseVideo,
       [BaseVideo EXCEPT !.video_id = <<"v", "4">>, !.duration = <<"P", "T", "3", "0", "S">>],
       [BaseVideo EXCEPT !.video_id = <<"v", "5">>, !.duration = <<"P", "T", "1", "H">>],
       [BaseVideo EXCEPT !.video_id = <<"v", "6">>, !.view_count = 1],
       [BaseVideo EXCEPT !.video_id = <<"v", "2">>, !.title = <<"L", "e", "a", "r", "n", " ", "T", "L", "A">>,
                         !.duration = <<"P", "T", "1", "M", "3", "0", "S">>, !.view_count = 1000,
                         !.like_count = 10],
       [BaseVideo EXCEPT !.video_id = <<"v", "7">>, !.published_at = 30 * 24 + 1],
       [BaseVideo EXCEPT !.video_id = <<"v", "8">>, !.title = <<"S", "P", "A", "M", " ", "o", "f", "f", "e", "r">>],
       [BaseVideo EXCEPT !.video_id = <<"v", "9">>, !.description = <<"p", "u", "r", "e", " ", "s", "p", "a", "m">>] >>

Reverse(l) == [i \in 1..Len(l) |-> l[Len(l) + 1 - i]]

\* the k entries of a list from position i on, going round
Window(l, i, k) == [j \in 1..k |-> l[((i + j - 2) % Len(l)) + 1]]

\* what the source may answer: up to n consecutive entries of the catalogue, from
\* any position, in either direction
CandidateLists(n) ==
    { Window(order, i, k) : order \in {CatalogueOrder, Reverse(CatalogueOrder)},
                            i \in 1..Len(CatalogueOrder), k \in 0..n }

FailReply == [ok |-> FALSE, videos |-> <<>>]
OkReply(videos) == [ok |-> TRUE, videos |-> videos]

Queries == { <<"l", "e", "a", "r", "n", " ", "t", "l", "a">>, <<"R", "u", "s", "t">> }

\* max_results values: small ones that truncate, and one beyond half the cap of 50
ResultSizes == {1, 2, 26}

StrictMapping ==
    [exclude_channels |-> << <<"B", "a", "d">> >>,
     min_duration |-> 60,
     max_duration |-> 600,
     min_views |-> 10,
     max_age_days |-> 30,
     disliked_keywords |-> << <<"S", "p", "a", "m">> >>]

LikesMapping ==
    [preferred_keywords |-> << <<"L", "e", "a", "r", "n">> >>,
     preferred_channels |-> << <<"O", "k">> >>]

SearchMappings == {StrictMapping, LikesMapping}

SearchStep ==
    /\ Len(search_history) < MaxLog
    /\ \E query \in Queries, max_results \in ResultSizes,
          videos \in CandidateLists(MaxCand) :
        /\ Len(videos) <= RequestSize(max_results)
        /\ Search(query, max_results, OkReply(videos), FALSE, FALSE)

UpdateStep == \E mapping \in SearchMappings : UpdatePreferences(mapping, FALSE)

Next == SearchStep \/ UpdateStep \/ Return

Spec == Init /\ [][Next]_vars

(***************************************************************************)
(* The scoring specification: _calculate_preference_score applied to       *)
(* videos that differ in view_count and like_count, under the stored       *)
(* preferences.                                                            *)
(***************************************************************************)
RECURSIVE PowerOfTen(_)
PowerOfTen(k) == IF k = 0 THEN 1 ELSE 10 * PowerOfTen(k - 1)

ViewCounts == {0} \cup { PowerOfTen(k) : k \in 0..MaxViewExp }
LikeCounts == {0, 1, 10}

ScoreVideos ==
    { [base EXCEPT !.view_count = views, !.like_count = likes] :
          base \in {CatalogueOrder[2], CatalogueOrder[6]},
          views \in ViewCounts, likes \in LikeCounts }

Score(video, query) ==
    /\ Idle
    /\ call' = [NoCall EXCEPT !.op = "score", !.video = video, !.query = query]
    /\ trace' = NoTrace
    /\ outcome' = [raised |-> FALSE, value |-> <<>>,
                   score |-> CalculatePreferenceScore(video, GetPreferences(FALSE), query)]
    /\ UNCHANGED <<default_preferences, rows, db, user_interactions, search_history, threads>>

ScoreStep == \E video \in ScoreVideos, query \in Queries : Score(video, query)

NextScore == ScoreStep \/ UpdateStep \/ Return

SpecScore == Init /\ [][NextScore]_vars

(***************************************************************************)
(* The channel specification: 'clicked' interactions on one new channel    *)
(* after the other, from the store as constructed.                         *)
(***************************************************************************)
PlainVideo == [NoVideo EXCEPT !.video_id = <<"p", "1">>, !.duration = <<"P", "T", "0", "M", "0", "S">>]

ChannelName(i) == <<"c", "h">> \o NatStr(i)

ClickStep ==
    /\ Len(user_interactions) < MaxChannelClicks
    /\ RecordInteraction([PlainVideo EXCEPT !.channel = ChannelName(Len(user_interactions) + 1)],
                         "clicked", <<>>, FALSE, FALSE, FALSE)

NextChannels == ClickStep \/ Return

SpecChannels == Init /\ [][NextChannels]_vars

(***************************************************************************)
(* The keyword specification: interactions with titled videos, from the    *)
(* store as constructed or after an explicit update that sets a long       *)
(* preferred_keywords list.                                                *)
(***************************************************************************)
KeywordName(i) == <<"k", "w">> \o NatStr(i)

KeywordList(n) == [i \in 1..n |-> KeywordName(i)]

KeywordMappings ==
    { [preferred_keywords |-> KeywordList(n)] : n \in {KeywordCap - 2, KeywordCap} }

KeywordTitles ==
    { <<"A", "l", "p", "h", "a", " ", "b", "e", "t", "a">>,
      <<"G", "a", "m", "m", "a", " ", "(", "d", "e", "l", "t", "a", ")", "!", " ", "w", "i", "t", "h", " ", "a", "l", "p", "h", "a">>,
      <<"k", "w", "1", " ", "[", "e", "p", "s", "i", "l", "o", "n", "]">>,
      <<>> }

KeywordStep ==
    /\ Len(user_interactions) < MaxKeywordCalls
    /\ \E title \in KeywordTitles, action \in {"clicked", "watched", "shared"} :
          RecordInteraction([PlainVideo EXCEPT !.title = title], action, <<>>,
                            FALSE, FALSE, FALSE)

KeywordUpdateStep ==
    /\ user_interactions = <<>>
    /\ \E mapping \in KeywordMappings : UpdatePreferences(mapping, FALSE)

NextKeywords == KeywordStep \/ KeywordUpdateStep \/ Return

SpecKeywords == Init /\ [][NextKeywords]_vars

(***************************************************************************)
(* The duration specification: interactions with videos of several         *)
(* lengths, from the store as constructed or after an explicit update of   *)
(* min_duration or max_duration.                                           *)
(***************************************************************************)
DriftMappings == { [min_duration |-> 90], [max_duration |-> MaxDurationCeiling - 400] }

DriftDurations == { <<"P", "T", "5", "H">>, <<"P", "T", "1", "S">>, <<"P", "T", "0", "M", "0", "S">> }

DriftStep ==
    /\ Len(user_interactions) < MaxDriftEvents
    /\ \E duration \in DriftDurations, action \in {"watched", "liked", "clicked"} :
          RecordInteraction([PlainVideo EXCEPT !.duration = duration], action, <<>>,
                            FALSE, FALSE, FALSE)

DriftUpdateStep ==
    /\ user_interactions = <<>>
    /\ \E mapping \in DriftMappings : UpdatePreferences(mapping, FALSE)

NextDrift == DriftStep \/ DriftUpdateStep \/ Return

SpecDrift == Init /\ [][NextDrift]_vars

(***************************************************************************)
(* The failure specification: search() and record_interaction() with the   *)
(* source and each store operation allowed to fail.                        *)
(***************************************************************************)
FaultReplies ==
    { FailReply } \cup { OkReply(videos) : videos \in CandidateLists(1) }

FaultySearchStep ==
    /\ Len(search_history) < MaxLog
    /\ \E max_results \in {1, 2}, reply \in FaultReplies, readFails, logFails \in BOOLEAN :
          Search(<<"R", "u", "s", "t">>, max_results, reply, readFails, logFails)

FaultyInteractionStep ==
    /\ Len(user_interactions) < MaxLog
    /\ \E action \in {"clicked", "shared"}, insertFails, readFails, writeFails \in BOOLEAN :
          RecordInteraction(CatalogueOrder[6], action, <<"R", "u", "s", "t">>,
                            insertFails, readFails, writeFails)

FaultyUpdateStep == \E writeFails \in BOOLEAN : UpdatePreferences(StrictMapping, writeFails)

NextFault == FaultySearchStep \/ FaultyInteractionStep \/ FaultyUpdateStep \/ Return

SpecFault == Init /\ [][NextFault]_vars

(***************************************************************************)
(* The aggregate specification: trending and recommendations against a     *)
(* source that may fail any of the constituent queries.                    *)
(***************************************************************************)
AggregateReplies ==
    { FailReply, OkReply(<<CatalogueOrder[2]>>),
      OkReply(<<CatalogueOrder[6], CatalogueOrder[2]>>) }

AggregateSizes == {4, 8}

TrendingStep ==
    /\ Len(search_history) < MaxLog
    /\ \E max_results \in AggregateSizes,
          replies \in [1..Len(TrendingQueries) -> AggregateReplies] :
          GetTrendingPersonalized(max_results, replies)

\* max_results for recommendations: also one below the number of queries, so that
\* the final truncation cuts the de-duplicated list
RecommendationSizes == AggregateSizes \cup {1}

RecommendationStep ==
    /\ Len(search_history) < MaxLog
    /\ \E max_results \in RecommendationSizes,
          replies \in [1..Len(RecommendationQueries(GetPreferences(FALSE)))
                          -> AggregateReplies] :
          GetRecommendations(max_results, replies)

AggregateUpdateStep == UpdatePreferences(LikesMapping, FALSE)

NextAggregate == TrendingStep \/ RecommendationStep \/ AggregateUpdateStep \/ Return

SpecAggregate == Init /\ [][NextAggregate]_vars

(***************************************************************************)
(* The ranking specification: _rank_by_preferences applied to candidate    *)
(* lists in both catalogue orders, under the stored preferences.           *)
(***************************************************************************)
Rank(videos, query) ==
    \E ranked \in {RankByPreferences(videos, GetPreferences(FALSE), query)} :
        /\ Idle
        /\ call' = [NoCall EXCEPT !.op = "rank", !.query = query]
        /\ trace' = [NoTrace EXCEPT !.raw = videos]
        /\ outcome' = Returned(ranked)
        /\ UNCHANGED <<default_preferences, rows, db, user_interactions, search_history, threads>>

RankStep == \E videos \in CandidateLists(MaxCand), query \in Queries : Rank(videos, query)

NextRank == RankStep \/ UpdateStep \/ Return

SpecRank == Init /\ [][NextRank]_vars

(***************************************************************************)
(* The duration specification: _parse_duration applied to every text over  *)
(* a small alphabet, with and without the prefix PT.                       *)
(***************************************************************************)
DurationAlphabet == {"1", "5", "H", "M", "S", "-", "x"}

TextsUpTo(n) == UNION { [1..k -> DurationAlphabet] : k \in 0..n }

DurationTexts ==
    { <<"P", "T">> \o body : body \in TextsUpTo(MaxBodyLen) } \cup TextsUpTo(2)

\* a call of _parse_duration: it returns an integer for every text, its handler
\* turning every exception into 0
ParseCall(duration_str) ==
    /\ Idle
    /\ call' = [NoCall EXCEPT !.op = "parse_duration", !.query = duration_str]
    /\ trace' = NoTrace
    /\ outcome' = [raised |-> FALSE, value |-> <<>>, score |-> ParseDuration(duration_str)]
    /\ UNCHANGED <<default_preferences, rows, db, user_interactions, search_history, threads>>

ParseStep == \E duration_str \in DurationTexts : ParseCall(duration_str)

NextParse == ParseStep \/ Return

SpecParse == Init /\ [][NextParse]_vars

(***************************************************************************)
(* The filter specification: _apply_preference_filters applied to          *)
(* candidate lists under the stored preferences, at one reading of the     *)
(* clock.                                                                  *)
(***************************************************************************)
Filter(videos) ==
    \E filtered_videos \in {ApplyPreferenceFilters(videos, GetPreferences(FALSE))} :
        /\ Idle
        /\ call' = [NoCall EXCEPT !.op = "filter"]
        /\ trace' = [NoTrace EXCEPT !.raw = videos]
        /\ outcome' = Returned(filtered_videos)
        /\ UNCHANGED <<default_preferences, rows, db, user_interactions, search_history, threads>>

\* lists long enough to hold two videos that pass with excluded ones between them
FilterStep == \E videos \in CandidateLists(MaxCand + 2) : Filter(videos)

NextFilter == FilterStep \/ UpdateStep \/ Return

SpecFilter == Init /\ [][NextFilter]_vars

(***************************************************************************)
(* The learning specification: interactions of every action label with     *)
(* videos that carry a channel, a category, a title and a short or a long  *)
(* duration, from the store as constructed or after an explicit update of  *)
(* the exclusions and the duration range.                                  *)
(***************************************************************************)
LearnVideos ==
    { [CatalogueOrder[6] EXCEPT !.category_id = <<"1", "0">>, !.duration = duration] :
          duration \in { <<"P", "T", "5", "H">>, <<"P", "T", "3", "0", "S">> } }
    \cup { PlainVideo }

LearnStep ==
    /\ Len(user_interactions) < MaxLearnCalls
    /\ \E video \in LearnVideos, action \in {"clicked", "liked", "watched", "shared"} :
          RecordInteraction(video, action, <<>>, FALSE, FALSE, FALSE)

LearnUpdateStep ==
    /\ user_interactions = <<>>
    /\ UpdatePreferences(StrictMapping, FALSE)

NextLearn == LearnStep \/ LearnUpdateStep \/ Return

SpecLearn == Init /\ [][NextLearn]_vars

(***************************************************************************)
(* The extraction specification: 'clicked', 'liked' and 'watched'          *)
(* interactions with videos whose titles hold tokens of punctuation only,  *)
(* short words inside punctuation, stoplist words and plain words.         *)
(***************************************************************************)
ExtractTitles ==
    { <<"A", "l", "p", "h", "a", " ", ".", ".", ".", ".">>,
      <<"(", "a", ")", "!", " ", "b", "e", "t", "a">>,
      <<"T", "h", "i", "s", " ", "(", "t", "h", "a", "t", ")", " ", "g", "a", "m", "m", "a", "!">>,
      <<"a", "b", "c", " ", "d", "e", "l", "t", "a">> }

ExtractStep ==
    /\ Len(user_interactions) < MaxExtractCalls
    /\ \E title \in ExtractTitles, action \in {"clicked", "liked", "watched"} :
          RecordInteraction([PlainVideo EXCEPT !.title = title], action, <<>>,
                            FALSE, FALSE, FALSE)

NextExtract == ExtractStep \/ Return

SpecExtract == Init /\ [][NextExtract]_vars

(***************************************************************************)
(* The bounds specification: explicit updates with full and partial        *)
(* mappings, among them values beyond the limits the learning rules keep,  *)
(* interleaved with interactions.                                          *)
(***************************************************************************)
FullMapping ==
    [key \in Keys |->
        IF key \in DOMAIN StrictMapping THEN StrictMapping[key]
        ELSE IF key \in DOMAIN LikesMapping THEN LikesMapping[key]
        ELSE DefaultPreferences[key]]

BoundMappings ==
    { FullMapping,
      [max_duration |-> MaxDurationCeiling + MaxDurationStep],
      [preferred_channels |-> [i \in 1..(ChannelCap + 1) |-> ChannelName(i)]],
      [preferred_keywords |-> KeywordList(KeywordCap + 1)] }

BoundUpdateStep ==
    /\ Len(user_interactions) < MaxBoundCalls
    /\ \E mapping \in BoundMappings : UpdatePreferences(mapping, FALSE)

BoundInteractionStep ==
    /\ Len(user_interactions) < MaxBoundCalls
    /\ \E video \in LearnVideos, action \in {"clicked", "watched"} :
          RecordInteraction(video, action, <<>>, FALSE, FALSE, FALSE)

NextBounds == BoundUpdateStep \/ BoundInteractionStep \/ Return

SpecBounds == Init /\ [][NextBounds]_vars

(***************************************************************************)
(* Request threads.  The application serves each request on a thread of    *)
(* its own, and all threads use the one UserPreferenceEngine.  A           *)
(* record_interaction call is four steps: the committed insert, the read   *)
(* of get_preferences, the learning on the dict that was read, and the     *)
(* committed write of update_preferences; an explicit update_preferences   *)
(* is one committed transaction.  A list that no row overlaid at the read  *)
(* is the defaults' own list object: the thread sees, and writes, what     *)
(* that list holds at the moment it looks.                                 *)
(***************************************************************************)
LearnedLists == {"preferred_channels", "preferred_categories", "preferred_keywords"}

\* the dict a thread holds, its shared lists as they are now
HeldPreferences(thread) ==
    [key \in Keys |-> IF key \in threads[thread].shared THEN default_preferences[key]
                      ELSE threads[thread].preferences[key]]

\* the mapping a thread hands to update_preferences, its shared lists as they are now
HeldMapping(thread) ==
    [key \in Keys |-> IF key \in threads[thread].shared THEN default_preferences[key]
                      ELSE threads[thread].mapping[key]]

\* record_interaction up to the commit of its insert
BeginInteraction(thread, video, action) ==
    /\ Idle
    /\ threads[thread].pc = "idle"
    /\ user_interactions' = Append(user_interactions, InteractionRow(video, action, <<>>))
    /\ threads' = [threads EXCEPT ![thread] =
                      [NoThread EXCEPT !.pc = IF action \in LearnActions
                                              THEN "inserted" ELSE "done",
                                       !.op = "record_interaction",
                                       !.video = video, !.action = action]]
    /\ UNCHANGED <<default_preferences, rows, db, search_history, call, trace, outcome>>

\* preferences = self.get_preferences()
ReadPreferences(thread) ==
    /\ threads[thread].pc = "inserted"
    /\ threads' = [threads EXCEPT ![thread].pc = "read",
                                  ![thread].preferences = GetPreferences(FALSE),
                                  ![thread].shared =
                                      {key \in LearnedLists : SharesDefault(key, FALSE)}]
    /\ UNCHANGED <<default_preferences, rows, db, user_interactions, search_history,
                   call, trace, outcome>>

\* the rules of _learn_from_interaction, applied to the dict the thread holds
LearnInMemory(thread) ==
    /\ threads[thread].pc = "read"
    /\ \E learned \in {Learned(threads[thread].video, threads[thread].action,
                               HeldPreferences(thread))} :
          /\ default_preferences' =
                 [key \in Keys |-> IF key \in threads[thread].shared
                                   THEN learned.appended[key]
                                   ELSE default_preferences[key]]
          /\ threads' = [threads EXCEPT
                           ![thread].pc = "learned",
                           ![thread].mapping = learned.updated,
                           ![thread].shared =
                               {key \in threads[thread].shared :
                                    learned.updated[key] = learned.appended[key]}]
    /\ UNCHANGED <<rows, db, user_interactions, search_history, call, trace, outcome>>

\* self.update_preferences(preferences): every key of the dict, in one transaction
WritePreferences(thread) ==
    /\ threads[thread].pc = "learned"
    /\ rows' = rows \cup Keys
    /\ db' = HeldMapping(thread)
    /\ threads' = [threads EXCEPT ![thread].pc = "done"]
    /\ UNCHANGED <<default_preferences, user_interactions, search_history,
                   call, trace, outcome>>

\* an explicit update_preferences on a thread of its own
UpdateOnThread(thread, mapping) ==
    /\ Idle
    /\ threads[thread].pc = "idle"
    /\ rows' = rows \cup DOMAIN mapping
    /\ db' = [key \in Keys |-> IF key \in DOMAIN mapping THEN mapping[key] ELSE db[key]]
    /\ threads' = [threads EXCEPT ![thread] =
                      [NoThread EXCEPT !.pc = "done", !.op = "update_preferences",
                                       !.mapping = mapping]]
    /\ UNCHANGED <<default_preferences, user_interactions, search_history,
                   call, trace, outcome>>

(***************************************************************************)
(* The concurrency specification: every thread makes one call, a           *)
(* record_interaction for a channel of its own or an explicit update of    *)
(* max_age_days, on the store as constructed or after an explicit update   *)
(* of every key; the steps of the threads interleave freely.               *)
(***************************************************************************)
ThreadVideo(thread) ==
    [PlainVideo EXCEPT !.channel = ChannelName(thread), !.duration = <<"P", "T", "5", "H">>]

ThreadMapping == [max_age_days |-> 7]

SeedStep ==
    /\ rows = {}
    /\ \A thread \in Threads : threads[thread].pc = "idle"
    /\ UpdatePreferences(FullMapping, FALSE)

BeginStep ==
    \E thread \in Threads, action \in {"clicked", "watched", "shared"} :
        BeginInteraction(thread, ThreadVideo(thread), action)

ReadStep == \E thread \in Threads : ReadPreferences(thread)

LearnStepOnThread == \E thread \in Threads : LearnInMemory(thread)

WriteStep == \E thread \in Threads : WritePreferences(thread)

ThreadUpdateStep == \E thread \in Threads : UpdateOnThread(thread, ThreadMapping)

NextThreads ==
    SeedStep \/ BeginStep \/ ReadStep \/ LearnStepOnThread \/ WriteStep
             \/ ThreadUpdateStep \/ Return

SpecThreads == Init /\ [][NextThreads]_vars

(***************************************************************************)
(* The recorded-duration specification: _parse_duration applied to the     *)
(* duration texts, and interactions with videos whose duration text holds  *)
(* a sign before a marker.                                                 *)
(***************************************************************************)
SignedDurations ==
    { <<"P", "T", "-", "5", "M">>, <<"P", "T", "5", "M">>, <<"P", "T", "1", "H", "-", "1", "S">> }

SignedInteractionStep ==
    /\ Len(user_interactions) < MaxLog
    /\ \E duration \in SignedDurations, action \in {"watched", "shared"} :
          RecordInteraction([PlainVideo EXCEPT !.duration = duration], action, <<>>,
                            FALSE, FALSE, FALSE)

NextRecorded == (user_interactions = <<>> /\ ParseStep) \/ SignedInteractionStep \/ Return

SpecRecorded == Init /\ [][NextRecorded]_vars

(***************************************************************************)
(* Claims.                                                                 *)
(***************************************************************************)

C2_RequestSizeAndResultBound ==
    (call.op = "search" /\ call.query # <<>> /\ call.max_results > 0) =>
        /\ Len(trace.requests) = 1
        /\ trace.requests[1].query = call.query
        /\ trace.requests[1].max_results =
               (IF 2 * call.max_results < 50 THEN 2 * call.max_results ELSE 50)
        /\ ~outcome.raised =>
               /\ Len(outcome.value) <= call.max_results
               /\ \A i \in 1..Len(outcome.value) :
                      \E j \in 1..Len(trace.raw) : trace.raw[j] = outcome.value[i]

\* C2 witness: a search that truncated what passed the filters to max_results
C2_Witness ==
    /\ call.op = "search" /\ ~outcome.raised
    /\ call.max_results = 1
    /\ Len(ApplyPreferenceFilters(trace.raw, StoredPreferences)) = 2
    /\ Len(outcome.value) = 1

\* C3 as stated: of two videos that differ only in view_count (both > 0, like_count
\* equal), the one with the higher view_count scores at least as much.
C3_Original ==
    (call.op = "score" /\ call.video.view_count > 0) =>
        \A views \in ViewCounts :
            views > call.video.view_count =>
                CalculatePreferenceScore([call.video EXCEPT !.view_count = views],
                                         StoredPreferences, call.query) >= outcome.score

\* C3 amended: of two videos that differ only in view_count (both > 0) and whose
\* like_count is 0, the one with the higher view_count scores at least as much.
C3_ScoreMonotoneWithoutLikes ==
    (call.op = "score" /\ call.video.view_count > 0 /\ call.video.like_count = 0) =>
        \A views \in ViewCounts :
            views > call.video.view_count =>
                CalculatePreferenceScore([call.video EXCEPT !.view_count = views],
                                         StoredPreferences, call.query) >= outcome.score

\* C3 witness: a scored video without likes that a ten times more viewed twin outscores
C3_Witness ==
    /\ call.op = "score" /\ call.video.view_count = 10 /\ call.video.like_count = 0
    /\ CalculatePreferenceScore([call.video EXCEPT !.view_count = 100],
                                StoredPreferences, call.query) > outcome.score

\* C8: from an empty preferred_channels, after 'clicked' interactions on n distinct
\* non-empty channels one after the other, preferred_channels holds exactly
\* min(n, 50) entries: the most recently clicked ones, in the order they were clicked.
C8_ChannelCapKeepsMostRecent ==
    LET clicked == SelectSeq(user_interactions,
                             LAMBDA row : row.action = "clicked" /\ row.channel # <<>>)
        n == Len(clicked)
        kept == IF n < 50 THEN n ELSE 50
        channels == StoredPreferences.preferred_channels
    IN  (\A i, j \in 1..n : i # j => clicked[i].channel # clicked[j].channel) =>
            /\ Len(channels) = kept
            /\ \A i \in 1..kept : channels[i] = clicked[n - kept + i].channel

\* C8 witness: 52 channels were clicked, 50 are kept and the third one is the oldest
C8_Witness ==
    /\ call.op = "record_interaction"
    /\ Len(user_interactions) = 52
    /\ Len(StoredPreferences.preferred_channels) = 50
    /\ StoredPreferences.preferred_channels[1] = ChannelName(3)
    /\ StoredPreferences.preferred_channels[50] = call.video.channel

\* C9: preferred_keywords never has more than 100 entries, and a record_interaction
\* call that finds 100 entries leaves the list as it found it.
C9_KeywordCapNoReplacement ==
    /\ Len(StoredPreferences.preferred_keywords) <= 100
    /\ (call.op = "record_interaction" /\ Len(trace.before.preferred_keywords) = 100) =>
           StoredPreferences.preferred_keywords = trace.before.preferred_keywords

\* C9 witness: a 'clicked' interaction whose title holds a new keyword found the
\* list two short of the cap, filled it and left that keyword out
C9_Witness ==
    /\ call.op = "record_interaction" /\ call.action = "clicked"
    /\ Len(trace.before.preferred_keywords) = 98
    /\ Len(StoredPreferences.preferred_keywords) = 100
    /\ \E i \in 1..Len(TitleWords(Lower(call.video.title))) :
           LET word == TitleWords(Lower(call.video.title))[i]
           IN  /\ word \notin CommonWords
               /\ ~InList(word, StoredPreferences.preferred_keywords)

\* C10: min_duration is never below 0 and max_duration never above 14400, and one
\* interaction lowers min_duration by at most 60 and raises max_duration by at
\* most 300.
C10_DurationDriftBounds ==
    /\ StoredPreferences.min_duration >= 0
    /\ StoredPreferences.max_duration <= 14400
    /\ call.op = "record_interaction" =>
           /\ StoredPreferences.min_duration >= trace.before.min_duration - 60
           /\ StoredPreferences.max_duration <= trace.before.max_duration + 300

\* C10 witness: a long video watched with max_duration 100 below the ceiling
\* raised it to the ceiling
C10_Witness ==
    /\ call.op = "record_interaction" /\ call.action = "watched"
    /\ trace.before.max_duration = 14300
    /\ ParseDuration(call.video.duration) > 14400
    /\ StoredPreferences.max_duration = 14400

StoreOperations == {"read", "write", "insert", "log"}

\* C4 as stated: a call of search() or record_interaction() in which a store
\* operation fails ends by raising the failure to its caller.
C4_Original ==
    (call.op \in {"search", "record_interaction"}
        /\ trace.failures \cap StoreOperations # {}) => outcome.raised

\* C4 amended: a call of search() or record_interaction() in which a store
\* operation fails, and the source does not, returns normally: the failure is
\* caught and logged where it occurs.  A failed search-log insert leaves
\* search_history as it was, and a failed interaction insert leaves
\* user_interactions as it was.
C4_StoreFailureIsSwallowed ==
    (call.op \in {"search", "record_interaction"}
        /\ trace.failures \cap StoreOperations # {}) =>
        /\ ~outcome.raised
        /\ "log" \in trace.failures => Len(search_history) = trace.searches_before
        /\ "insert" \in trace.failures => Len(user_interactions) = trace.interactions_before

\* C4 witness: a search() whose preference read failed returned, without raising,
\* a video of a channel the stored preferences exclude
C4_Witness ==
    /\ call.op = "search" /\ "read" \in trace.failures /\ ~outcome.raised
    /\ \E i \in 1..Len(outcome.value) :
           InList(outcome.value[i].channel, StoredPreferences.exclude_channels)

\* the results of the constituent queries the source answered, one after the other
RECURSIVE AnsweredResults(_, _, _)
AnsweredResults(queries, per_query, replies) ==
    IF queries = <<>> THEN <<>>
    ELSE (IF Head(replies).ok
          THEN Truncate(RankByPreferences(
                            ApplyPreferenceFilters(Head(replies).videos, StoredPreferences),
                            StoredPreferences, Head(queries)), per_query)
          ELSE <<>>)
         \o AnsweredResults(Tail(queries), per_query, Tail(replies))

FailedQueries == {i \in 1..Len(trace.source) : ~trace.source[i].ok}

\* C5 as stated: when exactly one of the fixed queries of get_trending_personalized()
\* fails, the result is the de-duplicated, truncated results of the queries that
\* succeeded.
C5_Original ==
    (call.op = "get_trending_personalized" /\ Cardinality(FailedQueries) = 1) =>
        outcome.value =
            Truncate(Unique(AnsweredResults(TrendingQueries,
                                            call.max_results \div Len(TrendingQueries),
                                            trace.source)),
                     call.max_results)

\* C5 amended: when exactly one of the fixed queries of get_trending_personalized()
\* fails, the failure is caught by the handler around the whole loop: the queries
\* after the failing one are not issued and the operation returns the empty list.
C5_TrendingFailureEmptiesResult ==
    (call.op = "get_trending_personalized" /\ Cardinality(FailedQueries) = 1) =>
        /\ ~outcome.raised
        /\ outcome.value = <<>>
        /\ \A i \in FailedQueries :
               /\ Len(trace.requests) = i
               /\ Len(search_history) = trace.searches_before + (i - 1)

\* C5 witness: the third trending query alone failed after the first two had
\* found videos, and nothing was returned
C5_Witness ==
    /\ call.op = "get_trending_personalized" /\ FailedQueries = {3}
    /\ AnsweredResults(TrendingQueries, call.max_results \div Len(TrendingQueries),
                       trace.source) # <<>>
    /\ outcome.value = <<>>

\* C6: get_recommendations() never fails: every constituent query is issued, a
\* failed one contributes nothing, the result is the de-duplicated, truncated
\* results of the successful ones, and it is the empty list when every query fails.
C6_RecommendationsSurviveFailures ==
    call.op = "get_recommendations" =>
        LET queries == RecommendationQueries(StoredPreferences)
            per_query == IF call.max_results \div Len(queries) > 1
                         THEN call.max_results \div Len(queries) ELSE 1
        IN  /\ ~outcome.raised
            /\ Len(trace.requests) = Len(queries)
            /\ outcome.value =
                   Truncate(Unique(AnsweredResults(queries, per_query, trace.source)),
                            call.max_results)
            /\ FailedQueries = 1..Len(queries) => outcome.value = <<>>

\* C6 witness: recommendations whose first query failed and that still returned
\* the videos of a later one
C6_Witness ==
    /\ call.op = "get_recommendations"
    /\ 1 \in FailedQueries
    /\ outcome.value # <<>>

\* C7: when the source raises during search(), search() raises to its caller,
\* returns no list, and appends no row to search_history.
C7_SourceFailurePropagates ==
    (call.op = "search" /\ "source" \in trace.failures) =>
        /\ outcome.raised
        /\ outcome.value = <<>>
        /\ Len(search_history) = trace.searches_before

\* C7 witness: a search() that the source failed
C7_Witness ==
    /\ call.op = "search" /\ ~trace.source[1].ok
    /\ outcome.raised
    /\ search_history = <<>>

\* the score _rank_by_preferences gave a video of the last ranking call
RankedScore(video) == CalculatePreferenceScore(video, StoredPreferences, call.query)

\* C11: _rank_by_preferences returns a permutation of its input in descending
\* order of score, and two videos with the same score keep the relative order
\* they had in the input.
C11_RankingIsStableDescending ==
    call.op = "rank" =>
        /\ Len(outcome.value) = Len(trace.raw)
        /\ \E place \in [1..Len(trace.raw) -> 1..Len(trace.raw)] :
               /\ \A i, j \in 1..Len(trace.raw) : i # j => place[i] # place[j]
               /\ \A i \in 1..Len(trace.raw) : outcome.value[i] = trace.raw[place[i]]
               /\ \A i, j \in 1..Len(trace.raw) :
                      i < j =>
                          \/ RankedScore(outcome.value[i]) > RankedScore(outcome.value[j])
                          \/ /\ RankedScore(outcome.value[i]) = RankedScore(outcome.value[j])
                             /\ place[i] < place[j]

\* C11 witness: a ranking that moved a higher-scoring video ahead of two videos
\* with one and the same score, which kept their input order
C11_Witness ==
    /\ call.op = "rank" /\ Len(trace.raw) = 3
    /\ RankedScore(trace.raw[1]) = RankedScore(trace.raw[2])
    /\ RankedScore(trace.raw[3]) > RankedScore(trace.raw[1])
    /\ outcome.value = <<trace.raw[3], trace.raw[1], trace.raw[2]>>

\* everything the constituent queries of the last get_recommendations() call
\* returned, in the order of the queries
RecommendedBeforeUnique ==
    LET queries == RecommendationQueries(StoredPreferences)
    IN  AnsweredResults(queries,
                        IF call.max_results \div Len(queries) > 1
                        THEN call.max_results \div Len(queries) ELSE 1,
                        trace.source)

\* the place at which a video_id is first seen in a list
FirstSeen(video_id, videos) ==
    CHOOSE p \in 1..Len(videos) :
        /\ videos[p].video_id = video_id
        /\ \A q \in 1..(p - 1) : videos[q].video_id # video_id

\* C12: get_recommendations() returns at most max_results videos, no two of them
\* with the same video_id, and they are the first occurrences of the video_ids in
\* the order in which the constituent queries returned them, none skipped.
C12_RecommendationsAreUnique ==
    call.op = "get_recommendations" =>
        \A all \in {RecommendedBeforeUnique} :
            /\ Len(outcome.value) <= call.max_results
            /\ \A i, j \in 1..Len(outcome.value) :
                   i # j => outcome.value[i].video_id # outcome.value[j].video_id
            /\ \A i \in 1..Len(outcome.value) :
                   /\ \E p \in 1..Len(all) : all[p] = outcome.value[i]
                   /\ outcome.value[i] = all[FirstSeen(outcome.value[i].video_id, all)]
                   /\ \A p \in 1..(FirstSeen(outcome.value[i].video_id, all) - 1) :
                          \E j \in 1..(i - 1) : outcome.value[j].video_id = all[p].video_id
            /\ Len(outcome.value) < call.max_results =>
                   \A p \in 1..Len(all) :
                       \E i \in 1..Len(outcome.value) :
                           outcome.value[i].video_id = all[p].video_id

\* C12 witness: recommendations whose queries returned one video twice and a second
\* video after it, and that returned the two videos once each
C12_Witness ==
    /\ call.op = "get_recommendations"
    /\ Len(RecommendedBeforeUnique) > 2
    /\ RecommendedBeforeUnique[1].video_id = RecommendedBeforeUnique[2].video_id
    /\ Len(outcome.value) = 2

\* a component nH, nM or nS: a non-empty run of digits and then the marker, or nothing
IsComponent(text, marker) ==
    \/ text = <<>>
    \/ /\ Len(text) >= 2
       /\ text[Len(text)] = marker
       /\ \A i \in 1..(Len(text) - 1) : IsDigit(text[i])

ComponentValue(text) ==
    IF text = <<>> THEN 0 ELSE DigitsValue(SubSeq(text, 1, Len(text) - 1), 0)

\* the ways of cutting a text into an nH, an nM and an nS component
FormCuts(body) ==
    { cut \in (0..Len(body)) \X (0..Len(body)) :
          /\ cut[1] <= cut[2]
          /\ IsComponent(SubSeq(body, 1, cut[1]), "H")
          /\ IsComponent(SubSeq(body, cut[1] + 1, cut[2]), "M")
          /\ IsComponent(SubSeq(body, cut[2] + 1, Len(body)), "S") }

HasForm(text) ==
    /\ StartsWith(text, <<"P", "T">>)
    /\ FormCuts(SubSeq(text, 3, Len(text))) # {}

FormValue(text) ==
    LET body == SubSeq(text, 3, Len(text))
        cut == CHOOSE c \in FormCuts(body) : TRUE
    IN  ComponentValue(SubSeq(body, 1, cut[1])) * 3600
        + ComponentValue(SubSeq(body, cut[1] + 1, cut[2])) * 60
        + ComponentValue(SubSeq(body, cut[2] + 1, Len(body)))

ChangedKeys == {key \in Keys : StoredPreferences[key] # trace.before[key]}

AppendedKeywords ==
    LET before == trace.before.preferred_keywords
        after == StoredPreferences.preferred_keywords
    IN  { after[i] : i \in (Len(before) + 1)..Len(after) }

\* the tokens of a title that the documented extraction keeps: lowercase, split
\* on whitespace, stripped, longer than 3 after the strip, not in the stoplist
DocumentedKeywords(title) ==
    { word \in { Strip(Split(Lower(title))[i], Punctuation) :
                   i \in 1..Len(Split(Lower(title))) } :
          Len(word) > 3 /\ word \notin CommonWords }

\* C17: every keyword that a 'clicked' or 'liked' interaction appends is a
\* lowercase whitespace-delimited token of the title that, after the strip of
\* .,!?()[] , is longer than 3 and not in the stoplist; no call appends the empty
\* string or a keyword of 3 or fewer characters.
C17_KeywordsAreStrippedLongTokens ==
    call.op = "record_interaction" =>
        /\ AppendedKeywords \subseteq DocumentedKeywords(call.video.title)
        /\ \A word \in AppendedKeywords : Len(word) > 3

C19_BoundsHoldUnderUpdates ==
    /\ StoredPreferences.max_duration <= MaxDurationCeiling
    /\ Len(StoredPreferences.preferred_channels) <= ChannelCap
    /\ Len(StoredPreferences.preferred_keywords) <= KeywordCap

\* every thread has completed its call
AllCompleted == \A thread \in Threads : threads[thread].pc = "done"

\* C20: when record_interaction calls for distinct new channels, and explicit
\* updates of a key the learning never changes, interleave their store reads and
\* writes, then after all have completed the stored preferences hold the effect
\* of each: every such channel is in preferred_channels and every explicitly
\* written key holds the written value.
C20_NoLostUpdate ==
    AllCompleted =>
        \A thread \in Threads :
            /\ (/\ threads[thread].op = "record_interaction"
                /\ threads[thread].action \in LearnActions)
                   => InList(threads[thread].video.channel,
                             StoredPreferences.preferred_channels)
            /\ threads[thread].op = "update_preferences"
                   => \A key \in DOMAIN threads[thread].mapping :
                          StoredPreferences[key] = threads[thread].mapping[key]

\* C21: learning never alters the defaults: in every state a key that has no
\* stored row reads from get_preferences() as its original default, and a
\* record_interaction call whose preference write fails leaves the preferences
\* that later reads observe as they were before the call.
C21_LearningKeepsDefaults ==
    /\ \A key \in Keys \ rows : StoredPreferences[key] = DefaultPreferences[key]
    /\ (call.op = "record_interaction" /\ "write" \in trace.failures) =>
           StoredPreferences = trace.before

\* C22: for every input text, also one with a sign or another non-digit
\* character before a marker, _parse_duration returns a non-negative integer, so
\* no parsed duration is below a min_duration of 0 and no interaction row holds
\* a negative duration.
C22_DurationsAreNonNegative ==
    /\ call.op = "parse_duration" => outcome.score >= 0
    /\ \A i \in 1..Len(user_interactions) : user_interactions[i].duration >= 0

====
